---- MODULE Spec2Model ----
(***************************************************************************)
(* The go-cli-builder scripts: scaffold_project.py and add_command.py.     *)
(*                                                                         *)
(* A path is a sequence of path components relative to the working         *)
(* directory.  A text is a sequence of atoms; an atom stands for a literal *)
(* piece of text that the code never looks inside except through the       *)
(* substring tests tabulated in Needles / LowerNeedles; the atom "\n" is   *)
(* the line break.                                                         *)
(*                                                                         *)
(* Environment idealisations: filesystem calls do not fail for reasons     *)
(* outside the model (permissions, full disk), and the calendar year does  *)
(* not change during a behaviour.                                          *)
(***************************************************************************)
EXTENDS Naturals, Sequences, FiniteSets, TLC

VARIABLES
    dirs,       \* the directories that exist (set of paths)
    files,      \* the regular files that exist: path -> text
    templates,  \* names of the files present in assets/templates (read-only)
    year,       \* str(datetime.now().year)
    proc,       \* per process: position and locals of the running script
    results,    \* history: the project tree as scaffold_project left it
    harness     \* pure-function harness: input, operation and output text

vars == <<dirs, files, templates, year, proc, results, harness>>

-----------------------------------------------------------------------------
(* Inputs *)

ProjectNames == {"mytool"}
OutputDirs == {"out1", "out2"}
CommandNames == {"fetch", "root"}
Years == {"2026"}
Procs == {1, 2}
Main == 1

NL == "\n"

-----------------------------------------------------------------------------
(* Paths and the filesystem (pathlib) *)

Parent(path) == SubSeq(path, 1, Len(path) - 1)

Prefixes(path) == {SubSeq(path, 1, k) : k \in 1..Len(path)}

IsUnder(path, root) ==
    /\ Len(path) > Len(root)
    /\ SubSeq(path, 1, Len(root)) = root

RelativeTo(path, root) == SubSeq(path, Len(root) + 1, Len(path))

\* faulty variant: is_file() in place of exists()
ExistsFileOnly(ds, fs, path) == path \in DOMAIN fs

\* Path.exists()
Exists(ds, fs, path) == path = <<>> \/ path \in ds \/ path \in DOMAIN fs

\* Path.is_dir(): every component of the path is a directory
IsDir(ds, path) == Prefixes(path) \subseteq ds

\* Path.mkdir(parents=True, exist_ok=True) raises when a component is a file
MkdirFails(fs, path) == \E q \in Prefixes(path) : q \in DOMAIN fs

\* faulty variant: mkdir() without parents=True
MkdirNoParents(ds, path) == ds \cup {path}

\* Path.mkdir(parents=True, exist_ok=True)
Mkdir(ds, path) == ds \cup Prefixes(path)

\* open(path, 'w') raises unless the parent is a directory and path is not one
OpenFails(ds, path) == ~IsDir(ds, Parent(path)) \/ path \in ds

\* with open(path, 'w') as f: f.write(content)
WriteText(fs, path, content) ==
    [q \in DOMAIN fs \cup {path} |-> IF q = path THEN content ELSE fs[q]]

-----------------------------------------------------------------------------
(* Texts (str) *)

\* the literal needles of the filters that occur inside an atom
Needles(atom) ==
    CASE atom = "go-sqlite3" -> {"go-sqlite3"}
      [] atom = "// Database flag" -> {"Database flag"}
      [] atom = "database-url" -> {"database"}
      [] atom = "rootCmd.PersistentFlags()" -> {"rootCmd.PersistentFlags()"}
      [] atom = "\"database\"" -> {"database", "\"database\""}
      [] atom = "BindPFlag" -> {"BindPFlag"}
      [] atom = "viper.SetDefault(\"database\"" ->
            {"database", "\"database\"", "viper.SetDefault(\"database\""}
      [] atom = "Database: viper.GetString(\"database\")" ->
            {"database", "\"database\"", "Database: viper.GetString(\"database\")"}
      [] atom = "Database string" -> {"Database string"}
      [] atom = "CGO_ENABLED=1 " -> {"CGO_ENABLED=1 "}
      [] atom = " SQLite requires CGO" -> {"SQLite requires CGO"}
      [] OTHER -> {}

\* the lower-case needles that occur inside atom.lower()
LowerNeedles(atom) ==
    CASE atom = "go-sqlite3" -> {"sqlite"}
      [] atom = " SQLite requires CGO" -> {"sqlite"}
      [] atom = " Static linking" -> {"static linking"}
      [] atom = " of SQLite" -> {"sqlite"}
      [] OTHER -> {}

\* needle in line
In(needle, line) == \E k \in 1..Len(line) : needle \in Needles(line[k])

\* needle in line.lower()
InLower(needle, line) == \E k \in 1..Len(line) : needle \in LowerNeedles(line[k])

\* line.startswith('#')
StartsWithHash(line) == Len(line) > 0 /\ line[1] = "#"

\* line.strip() == ''
IsBlank(line) == \A k \in 1..Len(line) : line[k] = " "

\* content.replace(old, new): leftmost, non-overlapping, one pass
RECURSIVE Replace(_, _, _)
Replace(content, old, new) ==
    IF Len(content) < Len(old) THEN content
    ELSE IF SubSeq(content, 1, Len(old)) = old
         THEN new \o Replace(SubSeq(content, Len(old) + 1, Len(content)), old, new)
         ELSE <<Head(content)>> \o Replace(Tail(content), old, new)

FirstBreak(content) ==
    CHOOSE k \in 1..Len(content) :
        content[k] = NL /\ \A j \in 1..(k - 1) : content[j] # NL

\* content.split('\n')
RECURSIVE Split(_)
Split(content) ==
    IF \A k \in 1..Len(content) : content[k] # NL THEN <<content>>
    ELSE LET k == FirstBreak(content)
         IN <<SubSeq(content, 1, k - 1)>> \o Split(SubSeq(content, k + 1, Len(content)))

\* '\n'.join(lines)
RECURSIVE Join(_)
Join(lines) ==
    IF Len(lines) = 0 THEN <<>>
    ELSE IF Len(lines) = 1 THEN lines[1]
    ELSE lines[1] \o <<NL>> \o Join(Tail(lines))

\* f"{{{{{key}}}}}"
Placeholder(key) == <<"{{", key, "}}">>

\* faulty variant: every replacement starts again from the template text
ApplyLastOnly(content, replacements) ==
    IF Len(replacements) = 0 THEN content
    ELSE LET r == replacements[Len(replacements)]
         IN Replace(content, Placeholder(r[1]), r[2])

\* for key, value in replacements.items(): content = content.replace(...)
RECURSIVE ApplyReplacements(_, _)
ApplyReplacements(content, replacements) ==
    IF Len(replacements) = 0 THEN content
    ELSE ApplyReplacements(
            Replace(content, Placeholder(replacements[1][1]), replacements[1][2]),
            Tail(replacements))

\* the replacement table of scaffold_project, in insertion order
Replacements(project_name, yr) ==
    << <<"PROJECT_NAME", <<project_name>> >>,
       <<"MODULE_NAME", <<"github.com/yourusername/" \o project_name>> >>,
       <<"YEAR", <<yr>> >> >>

-----------------------------------------------------------------------------
(* Content filters of scaffold_project *)

remove_sqlite_from_gomod(content) ==
    Join(SelectSeq(Split(content), LAMBDA line : ~In("go-sqlite3", line)))

RootLineDropped(line) ==
    \/ In("Database flag", line)
    \/ (In("database", line) /\ In("rootCmd.PersistentFlags()", line))
    \/ (In("\"database\"", line) /\ In("BindPFlag", line))
    \/ In("viper.SetDefault(\"database\"", line)
    \/ In("Database: viper.GetString(\"database\")", line)

remove_database_from_root(content) ==
    Join(SelectSeq(Split(content), LAMBDA line : ~RootLineDropped(line)))

\* faulty variant: the matching text is deleted, not the line that holds it
remove_text_from_config(content) ==
    SelectSeq(content, LAMBDA atom : "Database string" \notin Needles(atom))

remove_database_from_config(content) ==
    Join(SelectSeq(Split(content), LAMBDA line : ~In("Database string", line)))

SqliteTrigger(line) ==
    \/ In("SQLite requires CGO", line)
    \/ (InLower("static linking", line) /\ InLower("sqlite", line))

\* faulty variant: the line that ends a skipped block is dropped with it
RECURSIVE SkipThroughTerminator(_, _)
SkipThroughTerminator(lines, in_sqlite_comment) ==
    IF Len(lines) = 0 THEN <<>>
    ELSE LET line == Head(lines)
             still == in_sqlite_comment /\ ~(IsBlank(line) \/ ~StartsWithHash(line))
         IN IF SqliteTrigger(line)
            THEN SkipThroughTerminator(Tail(lines), TRUE)
            ELSE (IF in_sqlite_comment THEN <<>> ELSE <<line>>)
                    \o SkipThroughTerminator(Tail(lines), still)

\* the loop over lines with the flag in_sqlite_comment
RECURSIVE SkipSqliteComments(_, _)
SkipSqliteComments(lines, in_sqlite_comment) ==
    IF Len(lines) = 0 THEN <<>>
    ELSE LET line == Head(lines)
             still == in_sqlite_comment /\ ~(IsBlank(line) \/ ~StartsWithHash(line))
         IN IF SqliteTrigger(line)
            THEN SkipSqliteComments(Tail(lines), TRUE)
            ELSE (IF still THEN <<>> ELSE <<line>>)
                    \o SkipSqliteComments(Tail(lines), still)

remove_cgo_from_makefile(content) ==
    Join(SkipSqliteComments(Split(Replace(content, <<"CGO_ENABLED=1 ">>, <<>>)), FALSE))

\* modify_content(content), modify_content given by name ("none": None)
ModifyContent(filter, content) ==
    CASE filter = "gomod" -> remove_sqlite_from_gomod(content)
      [] filter = "makefile" -> remove_cgo_from_makefile(content)
      [] filter = "root" -> remove_database_from_root(content)
      [] filter = "config" -> remove_database_from_config(content)
      [] OTHER -> content

-----------------------------------------------------------------------------
(* assets/templates: representative template texts *)

TemplateText(template_name) ==
    CASE template_name = "main.go" ->
            <<"package main", NL, "import ", "{{", "MODULE_NAME", "}}", "/cmd">>
      [] template_name = "go.mod.template" ->
            <<"module ", "{{", "MODULE_NAME", "}}", NL,
              "require cobra", NL, "require ", "go-sqlite3">>
      [] template_name = "Makefile.template" ->
            <<"#", " SQLite requires CGO", NL, "#", " so it stays on", NL,
              "build:", NL, "CGO_ENABLED=1 ", "go build -o ", "{{", "PROJECT_NAME", "}}">>
      [] template_name = "gitignore.template" ->
            <<"{{", "PROJECT_NAME", "}}", NL, "*.db">>
      [] template_name = "config.yaml.example" ->
            <<"#", " ", "{{", "PROJECT_NAME", "}}", NL, "database-url", ": x">>
      [] template_name = "root.go.template" ->
            <<"// Copyright ", "{{", "YEAR", "}}", NL,
              "// Database flag", NL,
              "rootCmd.PersistentFlags()", ".String(", "\"database\"", ")", NL,
              "viper.", "BindPFlag", "(", "\"database\"", ")", NL,
              "viper.SetDefault(\"database\"", ")", NL,
              "Execute()">>
      [] template_name = "version.go.template" ->
            <<"// ", "{{", "PROJECT_NAME", "}}", " version">>
      [] template_name = "constants.go.template" ->
            <<"const AppName = ", "{{", "PROJECT_NAME", "}}">>
      [] template_name = "config.go.template" ->
            <<"type Config struct {", NL, "Database string", NL, "Verbose bool", NL, "}">>
      [] template_name = "ci.yml.template" -> <<"name: CI">>
      [] template_name = "release.yml.template" ->
            <<"name: Release ", "{{", "PROJECT_NAME", "}}">>
      [] template_name = "rolling-release.yml.template" -> <<"name: Rolling">>
      [] template_name = "database.go.template" ->
            <<"package database", NL, "import ", "go-sqlite3">>
      [] template_name = "migrations.go.template" -> <<"package database">>
      [] template_name = "schema.sql.template" -> <<"-- ", "{{", "PROJECT_NAME", "}}">>
      [] template_name = "init.go.template" ->
            <<"package cmd", NL, "import ", "{{", "MODULE_NAME", "}}", "/internal/templates">>
      [] template_name = "templates.go.template" -> <<"package templates">>
      [] template_name = "default.md.template" -> <<"# ", "{{", "PROJECT_NAME", "}}">>
      [] OTHER ->
            <<"var ", "{{", "COMMAND_NAME", "}}", "Cmd", NL,
              "func run", "{{", "COMMAND_NAME_CAPITALIZED", "}}", "()">>

-----------------------------------------------------------------------------
(* scaffold_project: directories and manifest *)

\* faulty variant: the database directory is appended whatever the flag
DirectoriesAlwaysDatabase(include_database, include_templates) ==
    << <<"cmd">>, <<"internal", "config">>, <<".github", "workflows">>,
       <<"docs", "dev-sessions">>, <<"internal", "database">> >>
    \o (IF include_templates THEN << <<"internal", "templates">> >> ELSE <<>>)

\* faulty variant: docs/dev-sessions is left out of the list
DirectoriesNoDocs(include_database, include_templates) ==
    << <<"cmd">>, <<"internal", "config">>, <<".github", "workflows">> >>
    \o (IF include_database THEN << <<"internal", "database">> >> ELSE <<>>)
    \o (IF include_templates THEN << <<"internal", "templates">> >> ELSE <<>>)

\* the list built by create_directory_structure
Directories(include_database, include_templates) ==
    << <<"cmd">>, <<"internal", "config">>, <<".github", "workflows">>,
       <<"docs", "dev-sessions">> >>
    \o (IF include_database THEN << <<"internal", "database">> >> ELSE <<>>)
    \o (IF include_templates THEN << <<"internal", "templates">> >> ELSE <<>>)

Entry(template_name, path, filter) ==
    [template |-> template_name, path |-> path, filter |-> filter]

\* None if include_database else <filter>
ModifyFor(include_database, filter) == IF include_database THEN "none" ELSE filter

\* scaffold_project lines 141-168: the copy_template calls made for every project
BaseEntries(project_name, include_database) ==
    << Entry("main.go", <<"main.go">>, "none"),
       Entry("go.mod.template", <<"go.mod">>, ModifyFor(include_database, "gomod")),
       Entry("Makefile.template", <<"Makefile">>, ModifyFor(include_database, "makefile")),
       Entry("gitignore.template", <<".gitignore">>, "none"),
       Entry("config.yaml.example", <<project_name \o ".yaml.example">>, "none"),
       Entry("root.go.template", <<"cmd", "root.go">>, ModifyFor(include_database, "root")),
       Entry("version.go.template", <<"cmd", "version.go">>, "none"),
       Entry("constants.go.template", <<"cmd", "constants.go">>, "none"),
       Entry("config.go.template", <<"internal", "config", "config.go">>,
             ModifyFor(include_database, "config")),
       Entry("ci.yml.template", <<".github", "workflows", "ci.yml">>, "none"),
       Entry("release.yml.template", <<".github", "workflows", "release.yml">>, "none"),
       Entry("rolling-release.yml.template",
             <<".github", "workflows", "rolling-release.yml">>, "none") >>

\* scaffold_project lines 170-174
DatabaseEntries(include_database) ==
    IF include_database
    THEN << Entry("database.go.template", <<"internal", "database", "database.go">>, "none"),
            Entry("migrations.go.template", <<"internal", "database", "migrations.go">>, "none"),
            Entry("schema.sql.template", <<"internal", "database", "schema.sql">>, "none") >>
    ELSE <<>>

\* faulty variant: the template-support files are copied whatever the flag
TemplateSupportEntriesAlways(include_templates) ==
    << Entry("init.go.template", <<"cmd", "init.go">>, "none"),
       Entry("templates.go.template", <<"internal", "templates", "templates.go">>, "none"),
       Entry("default.md.template", <<"internal", "templates", "default.md">>, "none") >>

\* scaffold_project lines 176-180
TemplateSupportEntries(include_templates) ==
    IF include_templates
    THEN << Entry("init.go.template", <<"cmd", "init.go">>, "none"),
            Entry("templates.go.template", <<"internal", "templates", "templates.go">>, "none"),
            Entry("default.md.template", <<"internal", "templates", "default.md">>, "none") >>
    ELSE <<>>

\* the copy_template calls of scaffold_project, in order
Manifest(project_name, include_database, include_templates) ==
    BaseEntries(project_name, include_database)
    \o DatabaseEntries(include_database)
    \o TemplateSupportEntries(include_templates)

Range(seq) == {seq[k] : k \in 1..Len(seq)}

\* the files of assets/templates that the two scripts name
TemplateNames ==
    {e.template : e \in Range(Manifest("", TRUE, TRUE))} \cup {"command.go.template"}

-----------------------------------------------------------------------------
(* Processes *)

Roots == {<<output_dir, project_name>> : output_dir \in OutputDirs, project_name \in ProjectNames}

IdleProc ==
    [pc |-> "idle", kind |-> "none", root |-> <<>>, name |-> "", db |-> FALSE,
     tmpl |-> FALSE, cmd |-> "", i |-> 0, content |-> <<>>, exit |-> 0, err |-> "",
     wrote |-> FALSE]

NoResult == [ran |-> FALSE, db |-> FALSE, tmpl |-> FALSE, dirs |-> {}, files |-> <<>>]

\* faulty variant: every exit reports success
EndedZero(r, code, message) ==
    [r EXCEPT !.pc = "done", !.i = 0, !.content = <<>>, !.exit = 0, !.err = message]

\* the process ends: sys.exit(code), an uncaught exception (code 1), or a return from main
Ended(r, code, message) ==
    [r EXCEPT !.pc = "done", !.i = 0, !.content = <<>>, !.exit = code, !.err = message]

\* what lies under root, by relative path
Tree(ds, fs, root) ==
    [dirs |-> {RelativeTo(d, root) : d \in {q \in ds : IsUnder(q, root)}},
     files |-> [rel \in {RelativeTo(f, root) : f \in {q \in DOMAIN fs : IsUnder(q, root)}}
                    |-> fs[root \o rel]]]

ManifestOf(r) == Manifest(r.name, r.db, r.tmpl)

DirectoriesOf(r) == Directories(r.db, r.tmpl)

CanStart(p) == proc[p].pc \in {"idle", "done"}

\* faulty variant: the destination is not looked at
ScaffoldStartUnchecked(p, output_dir, project_name, include_database, include_templates) ==
    /\ CanStart(p)
    /\ proc' = [proc EXCEPT ![p] =
                    [IdleProc EXCEPT !.pc = "mkroot", !.kind = "scaffold",
                                     !.root = <<output_dir, project_name>>,
                                     !.name = project_name, !.db = include_database,
                                     !.tmpl = include_templates]]
    /\ UNCHANGED <<dirs, files, templates, year, results, harness>>

\* scaffold_project lines 72-75: the destination must not exist
ScaffoldStart(p, output_dir, project_name, include_database, include_templates) ==
    /\ CanStart(p)
    /\ LET project_path == <<output_dir, project_name>>
           r == [IdleProc EXCEPT !.kind = "scaffold", !.root = project_path,
                                 !.name = project_name, !.db = include_database,
                                 !.tmpl = include_templates]
       IN proc' = [proc EXCEPT ![p] =
                        IF Exists(dirs, files, project_path)
                        THEN Ended(r, 1, "Directory already exists")
                        ELSE [r EXCEPT !.pc = "mkroot"]]
    /\ UNCHANGED <<dirs, files, templates, year, results, harness>>

\* scaffold_project line 77: project_path.mkdir(parents=True, exist_ok=True)
ScaffoldMkRoot(p) ==
    /\ proc[p].pc = "mkroot"
    /\ IF MkdirFails(files, proc[p].root)
       THEN /\ proc' = [proc EXCEPT ![p] = Ended(@, 1, "FileExistsError")]
            /\ dirs' = dirs
       ELSE /\ dirs' = Mkdir(dirs, proc[p].root)
            /\ proc' = [proc EXCEPT ![p] = [@ EXCEPT !.pc = "dirs", !.i = 1, !.wrote = TRUE]]
    /\ UNCHANGED <<files, templates, year, results, harness>>

\* create_directory_structure lines 32-35: one turn of the loop
CreateDirectory(p) ==
    /\ proc[p].pc = "dirs"
    /\ LET r == proc[p]
           dir_path == r.root \o DirectoriesOf(r)[r.i]
       IN IF MkdirFails(files, dir_path)
          THEN /\ proc' = [proc EXCEPT ![p] = Ended(r, 1, "FileExistsError")]
               /\ dirs' = dirs
          ELSE /\ dirs' = Mkdir(dirs, dir_path)
               /\ proc' = [proc EXCEPT ![p] =
                              IF r.i < Len(DirectoriesOf(r))
                              THEN [r EXCEPT !.i = r.i + 1]
                              ELSE [r EXCEPT !.pc = "copy", !.i = 1]]
    /\ UNCHANGED <<files, templates, year, results, harness>>

\* faulty variant: a failed copy_template ends the run
ReturnedFatal(r) ==
    IF r.pc = "copy"
    THEN [r EXCEPT !.pc = "done", !.i = 0, !.content = <<>>, !.exit = 1,
                   !.err = "Template not found"]
    ELSE [r EXCEPT !.pc = "copy", !.i = r.i + 1, !.content = <<>>]

\* copy_template returned (True or False): scaffold_project goes on to the next call
Returned(r) == [r EXCEPT !.pc = "copy", !.i = r.i + 1, !.content = <<>>]

\* copy_template lines 40-61: look the template up, read, substitute, filter, mkdir
CopyTemplate(p) ==
    /\ proc[p].pc = "copy"
    /\ proc[p].i <= Len(ManifestOf(proc[p]))
    /\ LET r == proc[p]
           e == ManifestOf(r)[r.i]
           dest_path == r.root \o e.path
           content == ModifyContent(e.filter,
                          ApplyReplacements(TemplateText(e.template),
                                            Replacements(r.name, year)))
       IN IF e.template \notin templates
          THEN /\ proc' = [proc EXCEPT ![p] = Returned(r)]
               /\ dirs' = dirs
          ELSE IF MkdirFails(files, Parent(dest_path))
          THEN /\ proc' = [proc EXCEPT ![p] = Ended(r, 1, "FileExistsError")]
               /\ dirs' = dirs
          ELSE /\ dirs' = Mkdir(dirs, Parent(dest_path))
               /\ proc' = [proc EXCEPT ![p] = [r EXCEPT !.pc = "write", !.content = content]]
    /\ UNCHANGED <<files, templates, year, results, harness>>

\* copy_template lines 62-66: write the destination and return True
WriteFile(p) ==
    /\ proc[p].pc = "write"
    /\ LET r == proc[p]
           dest_path == r.root \o ManifestOf(r)[r.i].path
       IN IF OpenFails(dirs, dest_path)
          THEN /\ proc' = [proc EXCEPT ![p] = Ended(r, 1, "OSError")]
               /\ files' = files
          ELSE /\ files' = WriteText(files, dest_path, r.content)
               /\ proc' = [proc EXCEPT ![p] = Returned(r)]
    /\ UNCHANGED <<dirs, templates, year, results, harness>>

\* scaffold_project lines 182-189 and the return to main
ScaffoldFinish(p) ==
    /\ proc[p].pc = "copy"
    /\ proc[p].i > Len(ManifestOf(proc[p]))
    /\ proc' = [proc EXCEPT ![p] = Ended(@, 0, "")]
    /\ results' = [results EXCEPT ![proc[p].root] =
                        [ran |-> TRUE, db |-> proc[p].db, tmpl |-> proc[p].tmpl,
                         dirs |-> Tree(dirs, files, proc[p].root).dirs,
                         files |-> Tree(dirs, files, proc[p].root).files]]
    /\ UNCHANGED <<dirs, files, templates, year, harness>>

\* command_name.capitalize()
Capitalize(command_name) ==
    CASE command_name = "fetch" -> "Fetch"
      [] command_name = "root" -> "Root"
      [] OTHER -> command_name

CommandReplacements(command_name) ==
    << <<"COMMAND_NAME", <<command_name>> >>,
       <<"COMMAND_NAME_CAPITALIZED", <<Capitalize(command_name)>> >> >>

\* faulty variant: the check of the command file is left out
AddCommandErrorNoFileCheck(ds, fs, present, cmd_dir, command_file) ==
    IF ~Exists(ds, fs, cmd_dir) THEN "cmd/ directory not found"
    ELSE IF "command.go.template" \notin present THEN "Template not found"
    ELSE ""

\* add_command lines 20-39: the message of the first failing check, "" if none fails
AddCommandError(ds, fs, present, cmd_dir, command_file) ==
    IF ~Exists(ds, fs, cmd_dir) THEN "cmd/ directory not found"
    ELSE IF Exists(ds, fs, command_file) THEN "Command already exists"
    ELSE IF "command.go.template" \notin present THEN "Template not found"
    ELSE ""

\* add_command lines 18-54: the three checks, then read and substitute
AddCommandStart(p, project_dir, command_name) ==
    /\ CanStart(p)
    /\ LET cmd_dir == project_dir \o <<"cmd">>
           command_file == cmd_dir \o <<command_name \o ".go">>
           r == [IdleProc EXCEPT !.kind = "add_command", !.root = project_dir,
                                 !.cmd = command_name]
           error == AddCommandError(dirs, files, templates, cmd_dir, command_file)
       IN proc' = [proc EXCEPT ![p] =
                IF error # ""
                THEN Ended(r, 1, error)
                ELSE [r EXCEPT !.pc = "addwrite",
                               !.content = ApplyReplacements(
                                               TemplateText("command.go.template"),
                                               CommandReplacements(command_name))]]
    /\ UNCHANGED <<dirs, files, templates, year, results, harness>>

\* add_command lines 56-65: write the command file
AddCommandWrite(p) ==
    /\ proc[p].pc = "addwrite"
    /\ LET r == proc[p]
           command_file == r.root \o <<"cmd", r.cmd \o ".go">>
       IN IF OpenFails(dirs, command_file)
          THEN /\ proc' = [proc EXCEPT ![p] = Ended(r, 1, "OSError")]
               /\ files' = files
          ELSE /\ files' = WriteText(files, command_file, r.content)
               /\ proc' = [proc EXCEPT ![p] = Ended([r EXCEPT !.wrote = TRUE], 0, "")]
    /\ UNCHANGED <<dirs, templates, year, results, harness>>

-----------------------------------------------------------------------------
(* Specification: one process, one invocation after another *)

MaxMissing == 1

\* which template files are absent from assets/templates
MissingChoices == {m \in SUBSET TemplateNames : Cardinality(m) <= MaxMissing}

NoHarness == [op |-> "none", kind |-> "none", input |-> <<>>, table |-> <<>>, output |-> <<>>]

Init ==
    /\ dirs = {}
    /\ files = <<>>
    /\ templates \in {TemplateNames \ m : m \in MissingChoices}
    /\ year \in Years
    /\ proc = [p \in Procs |-> IdleProc]
    /\ results = [root \in Roots |-> NoResult]
    /\ harness = NoHarness

Step(p) ==
    \/ \E output_dir \in OutputDirs, project_name \in ProjectNames,
          include_database \in BOOLEAN, include_templates \in BOOLEAN :
            ScaffoldStart(p, output_dir, project_name, include_database, include_templates)
    \/ ScaffoldMkRoot(p)
    \/ CreateDirectory(p)
    \/ CopyTemplate(p)
    \/ WriteFile(p)
    \/ ScaffoldFinish(p)
    \/ \E project_dir \in Roots, command_name \in CommandNames :
            AddCommandStart(p, project_dir, command_name)
    \/ AddCommandWrite(p)

Next == Step(Main)

Spec == Init /\ [][Next]_vars

-----------------------------------------------------------------------------
(* Specification: two processes, one scaffold_project invocation each, the *)
(* steps of the two interleaved at the filesystem operations               *)

InitConc ==
    /\ dirs = {}
    /\ files = <<>>
    /\ templates = TemplateNames
    /\ year \in Years
    /\ proc = [p \in Procs |-> IdleProc]
    /\ results = [root \in Roots |-> NoResult]
    /\ harness = NoHarness

\* python scaffold_project.py <project-name> --path <output-dir> ..., once per process
Invoke(p) ==
    /\ proc[p].pc = "idle"
    /\ \E output_dir \in OutputDirs, project_name \in ProjectNames,
          include_database \in BOOLEAN, include_templates \in BOOLEAN :
            ScaffoldStart(p, output_dir, project_name, include_database, include_templates)

StepConc(p) ==
    \/ Invoke(p)
    \/ ScaffoldMkRoot(p)
    \/ CreateDirectory(p)
    \/ CopyTemplate(p)
    \/ WriteFile(p)
    \/ ScaffoldFinish(p)

NextConc == \E p \in Procs : StepConc(p)

SpecConc == InitConc /\ [][NextConc]_vars

-----------------------------------------------------------------------------
(* Specification of the text functions alone: copy_template's substitution  *)
(* (lines 52-54) and its content filter (lines 57-58) applied to every text *)
(* up to a length.                                                          *)

MaxTemplateLen == 5
MaxContentLen == 5

PlaceholderAtoms == {"{{", "}}", "PROJECT_NAME", "YEAR", "x"}

ValueChoices == {<<"x">>, <<"YEAR">>, <<"{{", "YEAR", "}}">>}

\* replacement tables with the keys of scaffold_project and arbitrary values
Tables ==
    {<< <<"PROJECT_NAME", v1>>, <<"MODULE_NAME", v2>>, <<"YEAR", v3>> >> :
        v1 \in ValueChoices, v2 \in ValueChoices, v3 \in ValueChoices}

Filters == {"gomod", "makefile", "root", "config"}

FilterAtoms(filter) ==
    CASE filter = "gomod" -> {NL, "go-sqlite3", "x"}
      [] filter = "config" -> {NL, "Database string", "x"}
      [] filter = "root" ->
            {NL, "// Database flag", "\"database\"", "BindPFlag",
             "rootCmd.PersistentFlags()", "x"}
      [] OTHER ->
            {NL, "#", " ", "CGO_ENABLED=1 ", " SQLite requires CGO",
             " Static linking", " of SQLite", "x"}

Harness(kind, input, table) ==
    [op |-> "none", kind |-> kind, input |-> input, table |-> table, output |-> <<>>]

InitText ==
    /\ dirs = {}
    /\ files = <<>>
    /\ templates = TemplateNames
    /\ year \in Years
    /\ proc = [p \in Procs |-> IdleProc]
    /\ results = [root \in Roots |-> NoResult]
    /\ \/ \E n \in 0..MaxTemplateLen : \E t \in [1..n -> PlaceholderAtoms] :
            \E tb \in Tables : harness = Harness("replace", t, tb)
       \/ \E f \in Filters : \E n \in 0..MaxContentLen :
            \E t \in [1..n -> FilterAtoms(f)] : harness = Harness(f, t, <<>>)

\* copy_template lines 52-54 on the harness input
Substitute ==
    /\ harness.op = "none"
    /\ harness.kind = "replace"
    /\ harness' = [harness EXCEPT !.op = "replaced",
                                  !.output = ApplyReplacements(harness.input, harness.table)]
    /\ UNCHANGED <<dirs, files, templates, year, proc, results>>

\* copy_template lines 57-58 on the harness input
Modify ==
    /\ harness.op = "none"
    /\ harness.kind \in Filters
    /\ harness' = [harness EXCEPT !.op = "modified",
                                  !.output = ModifyContent(harness.kind, harness.input)]
    /\ UNCHANGED <<dirs, files, templates, year, proc, results>>

NextText == Substitute \/ Modify

SpecText == InitText /\ [][NextText]_vars

-----------------------------------------------------------------------------
(* The output layout as the specification enumerates it, written out        *)
(* independently of Directories and Manifest.  A directory named by a path  *)
(* stands for the directory and the directories above it.                   *)

BaseDirs ==
    {<<"cmd">>, <<"internal">>, <<"internal", "config">>, <<".github">>,
     <<".github", "workflows">>, <<"docs">>, <<"docs", "dev-sessions">>}

DatabaseDir == <<"internal", "database">>

TemplatesDir == <<"internal", "templates">>

\* <<destination, template>> pairs
BaseFiles(project_name) ==
    {<< <<"main.go">>, "main.go" >>,
     << <<"go.mod">>, "go.mod.template" >>,
     << <<"Makefile">>, "Makefile.template" >>,
     << <<".gitignore">>, "gitignore.template" >>,
     << <<project_name \o ".yaml.example">>, "config.yaml.example" >>,
     << <<"cmd", "root.go">>, "root.go.template" >>,
     << <<"cmd", "version.go">>, "version.go.template" >>,
     << <<"cmd", "constants.go">>, "constants.go.template" >>,
     << <<"internal", "config", "config.go">>, "config.go.template" >>,
     << <<".github", "workflows", "ci.yml">>, "ci.yml.template" >>,
     << <<".github", "workflows", "release.yml">>, "release.yml.template" >>,
     << <<".github", "workflows", "rolling-release.yml">>, "rolling-release.yml.template" >>}

DatabaseFiles ==
    {<< <<"internal", "database", "database.go">>, "database.go.template" >>,
     << <<"internal", "database", "migrations.go">>, "migrations.go.template" >>,
     << <<"internal", "database", "schema.sql">>, "schema.sql.template" >>}

TemplateSupportFiles ==
    {<< <<"cmd", "init.go">>, "init.go.template" >>,
     << <<"internal", "templates", "templates.go">>, "templates.go.template" >>,
     << <<"internal", "templates", "default.md">>, "default.md.template" >>}

FilteredOutputs ==
    {<<"go.mod">>, <<"Makefile">>, <<"cmd", "root.go">>,
     <<"internal", "config", "config.go">>}

ExpectedDirs(include_database, include_templates) ==
    BaseDirs \cup (IF include_database THEN {DatabaseDir} ELSE {})
             \cup (IF include_templates THEN {TemplatesDir} ELSE {})

ExpectedFiles(project_name, include_database, include_templates) ==
    BaseFiles(project_name) \cup (IF include_database THEN DatabaseFiles ELSE {})
                            \cup (IF include_templates THEN TemplateSupportFiles ELSE {})

Paths(pairs) == {pair[1] : pair \in pairs}

PresentPaths(pairs) == {pair[1] : pair \in {q \in pairs : q[2] \in templates}}

PathPresent(path) == path \in dirs \/ path \in DOMAIN files

\* process p starts a run in this step
Starts(p) == proc[p].pc \in {"idle", "done"} /\ proc'[p] # proc[p]

\* process p, running, ends in this step
Ends(p) == proc[p].pc \notin {"idle", "done"} /\ proc'[p].pc = "done"

Scaffolded == {root \in Roots : results[root].ran}

\* the fatal precondition of the run that process p starts in this step
ScaffoldFails(p) == PathPresent(proc'[p].root)

AddCommandFails(p) ==
    \/ ~PathPresent(proc'[p].root \o <<"cmd">>)
    \/ PathPresent(proc'[p].root \o <<"cmd", proc'[p].cmd \o ".go">>)
    \/ "command.go.template" \notin templates

ExitsOne(p) == proc'[p].pc = "done" /\ proc'[p].exit = 1

\* process p, in this step, calls copy_template for a template that is missing
AtMissingTemplate(p) ==
    /\ proc[p].pc = "copy"
    /\ proc[p].i <= Len(ManifestOf(proc[p]))
    /\ ManifestOf(proc[p])[proc[p].i].template \notin templates
    /\ proc'[p] # proc[p]

-----------------------------------------------------------------------------
(* C1: a scaffold_project run whose destination <output_dir>/<project_name> *)
(* already exists ends at once with the "already exists" error and exit     *)
(* code 1, and writes nothing: no directory and no file is created or       *)
(* changed.                                                                 *)
C1_ExistingDestinationRefused ==
    [][\A p \in Procs :
        (Starts(p) /\ proc'[p].kind = "scaffold" /\ PathPresent(proc'[p].root))
        => /\ proc'[p].pc = "done"
           /\ proc'[p].exit = 1
           /\ proc'[p].err = "Directory already exists"
           /\ ~proc'[p].wrote
           /\ dirs' = dirs
           /\ files' = files]_vars

\* a second run was refused on the path a first run scaffolded
C1_Witness ==
    /\ proc[Main].kind = "scaffold"
    /\ proc[Main].pc = "done"
    /\ proc[Main].exit = 1
    /\ results[proc[Main].root].ran

(* C2 as amended: after scaffold_project completes on a fresh destination,  *)
(* the directories under the project root are exactly the manifest's        *)
(* directories for the two flags, and the files are exactly the manifest's  *)
(* files whose template is present (all of them when none is missing).      *)
C2_TreeIsManifestOfPresentTemplates ==
    \A root \in Scaffolded :
        LET res == results[root]
        IN /\ res.dirs = ExpectedDirs(res.db, res.tmpl)
           /\ DOMAIN res.files = PresentPaths(ExpectedFiles(root[2], res.db, res.tmpl))

\* C2 as stated: nothing of the manifest is missing, whatever the templates
C2_TreeIsWholeManifest ==
    \A root \in Scaffolded :
        LET res == results[root]
        IN /\ res.dirs = ExpectedDirs(res.db, res.tmpl)
           /\ DOMAIN res.files = Paths(ExpectedFiles(root[2], res.db, res.tmpl))

C2_Witness ==
    \E root \in Scaffolded :
        /\ ~results[root].db
        /\ results[root].tmpl
        /\ Cardinality(DOMAIN results[root].files) = 15

(* C3: for the same project name and template flag, the run without        *)
(* database support differs from the run with it only in that               *)
(* internal/database and its files are absent and in the content of go.mod, *)
(* Makefile, cmd/root.go and internal/config/config.go; every other file    *)
(* has the same content in both.                                            *)
C3_DatabaseFlagFrame ==
    \A a \in Scaffolded, b \in Scaffolded :
        (a[2] = b[2] /\ results[a].tmpl = results[b].tmpl
            /\ results[a].db /\ ~results[b].db)
        => /\ DatabaseDir \in results[a].dirs
           /\ results[b].dirs = results[a].dirs \ {DatabaseDir}
           /\ DOMAIN results[b].files = DOMAIN results[a].files \ Paths(DatabaseFiles)
           /\ \A f \in DOMAIN results[b].files \ FilteredOutputs :
                   results[b].files[f] = results[a].files[f]

C3_Witness ==
    \E a \in Scaffolded, b \in Scaffolded :
        /\ results[a].db /\ ~results[b].db
        /\ results[a].tmpl /\ results[b].tmpl
        /\ results[a].files[<<"go.mod">>] # results[b].files[<<"go.mod">>]

(* C4 as amended: for the same project name and database flag, the run with *)
(* template support adds the directory internal/templates and those of      *)
(* cmd/init.go, internal/templates/templates.go and                         *)
(* internal/templates/default.md whose template is present (all three when  *)
(* none is missing), and nothing else; every directory and file of the run  *)
(* without the flag is there with the same content.                         *)
C4_TemplateFlagFrame ==
    \A a \in Scaffolded, b \in Scaffolded :
        (a[2] = b[2] /\ results[a].db = results[b].db
            /\ results[a].tmpl /\ ~results[b].tmpl)
        => /\ TemplatesDir \notin results[b].dirs
           /\ results[a].dirs = results[b].dirs \cup {TemplatesDir}
           /\ DOMAIN results[a].files
                = DOMAIN results[b].files \cup PresentPaths(TemplateSupportFiles)
           /\ DOMAIN results[b].files \cap Paths(TemplateSupportFiles) = {}
           /\ \A f \in DOMAIN results[b].files :
                   results[a].files[f] = results[b].files[f]

\* C4 as stated: exactly the three files and the directory are added
C4_TemplateFlagAddsAllThree ==
    \A a \in Scaffolded, b \in Scaffolded :
        (a[2] = b[2] /\ results[a].db = results[b].db
            /\ results[a].tmpl /\ ~results[b].tmpl)
        => /\ results[a].dirs = results[b].dirs \cup {TemplatesDir}
           /\ DOMAIN results[a].files
                = DOMAIN results[b].files \cup Paths(TemplateSupportFiles)
           /\ \A f \in DOMAIN results[b].files :
                   results[a].files[f] = results[b].files[f]

C4_Witness ==
    \E a \in Scaffolded, b \in Scaffolded :
        /\ results[a].db /\ results[b].db
        /\ results[a].tmpl /\ ~results[b].tmpl
        /\ <<"cmd", "init.go">> \in DOMAIN results[a].files

(* C6 as amended: a run exits with code 1 exactly when a fatal precondition *)
(* fails as it starts: for scaffold_project, the destination exists; for    *)
(* add_command, cmd/ is absent, the command file exists or the command      *)
(* template is missing.  Every other run exits with code 0; a template      *)
(* missing from the scaffolder's manifest is not fatal.                     *)
C6_ExitCodes ==
    [][\A p \in Procs :
        /\ (Starts(p) /\ proc'[p].kind = "scaffold") => (ScaffoldFails(p) <=> ExitsOne(p))
        /\ (Starts(p) /\ proc'[p].kind = "add_command") => (AddCommandFails(p) <=> ExitsOne(p))
        /\ Ends(p) => proc'[p].exit = 0]_vars

\* C6 as stated: a scaffolder run with a manifest template missing exits with code 1
C6_MissingTemplateIsFatal ==
    \A p \in Procs :
        (proc[p].kind = "scaffold" /\ proc[p].pc = "done"
            /\ \E pair \in ExpectedFiles(proc[p].name, proc[p].db, proc[p].tmpl) :
                    pair[2] \notin templates)
        => proc[p].exit = 1

\* a scaffolder run has ended with code 0 although a template of its manifest is missing
C6_Witness ==
    /\ proc[Main].kind = "scaffold"
    /\ proc[Main].pc = "done"
    /\ proc[Main].exit = 0
    /\ "go.mod.template" \notin templates

(* C7: when a template of the manifest is missing, copy_template returns    *)
(* without creating or changing any file or directory, scaffold_project     *)
(* goes on with the next entry, and at the end of the run every manifest    *)
(* entry whose template is present has been written.                        *)
C7_MissingTemplateSkipped ==
    /\ [][\A p \in Procs :
            AtMissingTemplate(p)
            => /\ dirs' = dirs
               /\ files' = files
               /\ proc'[p].pc = "copy"
               /\ proc'[p].i = proc[p].i + 1]_vars
    /\ [](\A root \in Scaffolded :
            PresentPaths(ExpectedFiles(root[2], results[root].db, results[root].tmpl))
                \subseteq DOMAIN results[root].files)

\* a run completed although its first template was missing, and later entries are there
C7_Witness ==
    \E root \in Scaffolded :
        /\ "main.go" \notin templates
        /\ <<"main.go">> \notin DOMAIN results[root].files
        /\ <<"go.mod">> \in DOMAIN results[root].files
        /\ <<".github", "workflows", "rolling-release.yml">> \in DOMAIN results[root].files

(* C8: whenever scaffold_project is about to write a file, the directory    *)
(* that is to contain it, with every directory above it, exists; this holds *)
(* for every flag combination and also when a template is missing.          *)
C8_DirectoryBeforeWrite ==
    \A p \in Procs :
        proc[p].pc = "write"
        => Prefixes(Parent(proc[p].root \o ManifestOf(proc[p])[proc[p].i].path))
                \subseteq dirs

C8_Witness ==
    /\ proc[Main].pc = "write"
    /\ proc[Main].tmpl
    /\ ~proc[Main].db
    /\ "main.go" \notin templates
    /\ ManifestOf(proc[Main])[proc[Main].i].path = <<"internal", "templates", "default.md">>

(* C10: add_command ends with exit code 1 and writes nothing when cmd/ is   *)
(* absent, when cmd/<command_name>.go exists or when the command template   *)
(* is missing; and no step of any add_command run removes or changes a file *)
(* that exists.                                                             *)
C10_AddCommandRefusesAndNeverOverwrites ==
    [][\A p \in Procs :
        /\ (Starts(p) /\ proc'[p].kind = "add_command" /\ AddCommandFails(p))
            => /\ ExitsOne(p)
               /\ ~proc'[p].wrote
               /\ dirs' = dirs
               /\ files' = files
        /\ (proc'[p] # proc[p] /\ proc'[p].kind = "add_command")
            => /\ dirs' = dirs
               /\ \A f \in DOMAIN files :
                    f \in DOMAIN files' /\ files'[f] = files[f]]_vars

\* a second add_command for a command that an earlier add_command wrote is refused
C10_Witness ==
    /\ proc[Main].kind = "add_command"
    /\ proc[Main].cmd = "fetch"
    /\ proc[Main].pc = "done"
    /\ proc[Main].err = "Command already exists"
    /\ proc[Main].exit = 1

-----------------------------------------------------------------------------
(* Reading a text for the claims about substitution and filtering *)

OccursAt(pattern, text, k) ==
    /\ k + Len(pattern) - 1 <= Len(text)
    /\ SubSeq(text, k, k + Len(pattern) - 1) = pattern

Occurs(pattern, text) == \E k \in 1..Len(text) : OccursAt(pattern, text, k)

Keys(table) == {table[k][1] : k \in 1..Len(table)}

ValueOf(table, key) == (CHOOSE k \in 1..Len(table) : table[k][1] = key)

NoResidual(text, table) == \A key \in Keys(table) : ~Occurs(<<"{{", key, "}}">>, text)

\* every {{KEY}} of the text replaced by the value of KEY, all at once
RECURSIVE Simultaneous(_, _)
Simultaneous(text, table) ==
    IF Len(text) = 0 THEN <<>>
    ELSE IF Len(text) >= 3 /\ text[1] = "{{" /\ text[2] \in Keys(table) /\ text[3] = "}}"
         THEN table[ValueOf(table, text[2])][2]
                \o Simultaneous(SubSeq(text, 4, Len(text)), table)
         ELSE <<text[1]>> \o Simultaneous(Tail(text), table)

BraceAtoms == {"{{", "}}"}

BraceFree(text) == \A k \in 1..Len(text) : text[k] \notin BraceAtoms

\* '{{' and '}}' occur in the text only as the two ends of a token {{NAME}}
TokensOnly(text) ==
    \A k \in 1..Len(text) :
        /\ text[k] = "{{" =>
              (k + 2 <= Len(text) /\ text[k + 1] \notin BraceAtoms /\ text[k + 2] = "}}")
        /\ text[k] = "}}" =>
              (k >= 3 /\ text[k - 1] \notin BraceAtoms /\ text[k - 2] = "{{")

\* the lines of a text; the empty text has none
Lines(text) == IF text = <<>> THEN <<>> ELSE Split(text)

\* a is b with some elements left out
RECURSIVE IsSubseq(_, _)
IsSubseq(a, b) ==
    IF Len(a) = 0 THEN TRUE
    ELSE IF Len(b) = 0 THEN FALSE
    ELSE IF Head(a) = Head(b) THEN IsSubseq(Tail(a), Tail(b))
    ELSE IsSubseq(a, Tail(b))

WithoutCgo(line) == SelectSeq(line, LAMBDA atom : atom # "CGO_ENABLED=1 ")

LinesWithoutCgo(text) == [k \in 1..Len(Lines(text)) |-> WithoutCgo(Lines(text)[k])]

(* C5 as amended: when '{{' and '}}' occur in the template only as the ends *)
(* of whole tokens {{NAME}} and no value of the replacement table contains  *)
(* a brace, the text copy_template writes has no occurrence of {{KEY}} left *)
(* for any key of the table, and is the template with each {{KEY}} replaced *)
(* by exactly the value of KEY.                                             *)
C5_SubstitutionOfPlainValues ==
    (harness.op = "replaced" /\ TokensOnly(harness.input)
        /\ \A k \in 1..Len(harness.table) : BraceFree(harness.table[k][2]))
    => /\ NoResidual(harness.output, harness.table)
       /\ harness.output = Simultaneous(harness.input, harness.table)

\* C5 as stated: for every template text and every table
C5_SubstitutionOfAnyValues ==
    harness.op = "replaced"
    => /\ NoResidual(harness.output, harness.table)
       /\ harness.output = Simultaneous(harness.input, harness.table)

C5_Witness ==
    /\ harness.op = "replaced"
    /\ harness.input = <<"x", "{{", "PROJECT_NAME", "}}">>
    /\ harness.table[1][2] = <<"YEAR">>
    /\ harness.table[3][2] = <<"x">>
    /\ harness.output = <<"x", "YEAR">>

(* C9 as amended: the output of remove_sqlite_from_gomod,                   *)
(* remove_database_from_root and remove_database_from_config consists of    *)
(* lines of its input, unchanged and in order.  remove_cgo_from_makefile    *)
(* also deletes every 'CGO_ENABLED=1 ' inside the lines: its output         *)
(* consists, in order, of lines of its input with that text deleted.        *)
C9_FiltersKeepLines ==
    harness.op = "modified"
    => IF harness.kind = "makefile"
       THEN IsSubseq(Lines(harness.output), LinesWithoutCgo(harness.input))
       ELSE IsSubseq(Lines(harness.output), Lines(harness.input))

\* C9 as stated: all four filters, the Makefile filter included
C9_AllFiltersKeepLines ==
    harness.op = "modified"
    => IsSubseq(Lines(harness.output), Lines(harness.input))

C9_Witness ==
    /\ harness.op = "modified"
    /\ harness.kind = "makefile"
    /\ harness.input = <<"CGO_ENABLED=1 ", "x", NL, "#", " SQLite requires CGO">>
    /\ harness.output = <<"x">>

-----------------------------------------------------------------------------
(* The scan of remove_cgo_from_makefile, line by line *)

\* the lines the loop scans: the input after content.replace, split
Scanned(text) == Split(Replace(text, <<"CGO_ENABLED=1 ">>, <<>>))

\* a line of a comment block: starts with '#' and is not blank
CommentLine(line) == StartsWithHash(line) /\ ~IsBlank(line)

\* in_sqlite_comment is set after line k: some line j <= k matches the
\* trigger and only comment lines or trigger lines lie between j and k
SetAfter(lines, k) ==
    \E j \in 1..k :
        /\ SqliteTrigger(lines[j])
        /\ \A m \in (j + 1)..k : CommentLine(lines[m]) \/ SqliteTrigger(lines[m])

\* line k arrives while the state is set and is blank or has no leading '#'
Terminates(lines, k) ==
    /\ k > 1
    /\ SetAfter(lines, k - 1)
    /\ (IsBlank(lines[k]) \/ ~StartsWithHash(lines[k]))

\* the positions 1..n that are in the set keep, in order
PositionsIn(n, keep) == SelectSeq([k \in 1..n |-> k], LAMBDA k : k \in keep)

\* the lines at the positions of keep, in order
LinesAt(lines, keep) ==
    [i \in 1..Len(PositionsIn(Len(lines), keep)) |->
        lines[PositionsIn(Len(lines), keep)[i]]]

KeptLines(lines) ==
    LinesAt(lines, {k \in 1..Len(lines) : ~SetAfter(lines, k)})

KeptLinesAsStated(lines) ==
    LinesAt(lines, {k \in 1..Len(lines) :
                        Terminates(lines, k) \/ ~SetAfter(lines, k)})

(* C11 as amended: remove_cgo_from_makefile scans the lines in order with   *)
(* one boolean.  A line that matches the SQLite trigger is always omitted   *)
(* and sets the state; while the state is set every following line that     *)
(* starts with '#' and is not blank is omitted; the state is cleared on the *)
(* first blank line or line not starting with '#' that does not itself      *)
(* match the trigger.  That line and every later line outside a skipped     *)
(* block is kept, so the output is exactly the scanned lines after which    *)
(* the state is clear, in order.                                            *)
C11_SkippedBlocks ==
    (harness.op = "modified" /\ harness.kind = "makefile")
    => harness.output = Join(KeptLines(Scanned(harness.input)))

\* C11 as stated: every line that is blank or does not start with '#' and
\* arrives while the state is set is kept, a trigger line included
C11_TerminatingLineAlwaysKept ==
    (harness.op = "modified" /\ harness.kind = "makefile")
    => harness.output = Join(KeptLinesAsStated(Scanned(harness.input)))

C11_Witness ==
    /\ harness.op = "modified"
    /\ harness.kind = "makefile"
    /\ harness.input = <<" SQLite requires CGO", NL, "#", NL, "x">>
    /\ harness.output = <<"x">>

-----------------------------------------------------------------------------
(* Two interleaved scaffold_project invocations *)

\* p has passed the destination check of lines 73-75
Passed(p) ==
    /\ proc[p].kind = "scaffold"
    /\ proc[p].err # "Directory already exists"

\* p was refused by the destination check
Refused(p) ==
    /\ proc[p].pc = "done"
    /\ proc[p].err = "Directory already exists"
    /\ proc[p].exit = 1

\* another invocation has already made the directory path (line 77)
MadeByOther(p, path) ==
    \E q \in Procs \ {p} : proc[q].root = path /\ proc[q].wrote

\* the step in which p makes its destination check
Checks(p) == proc[p].pc = "idle" /\ proc'[p].pc # "idle"

(* C12 as amended: the destination check (line 73) and the mkdir that       *)
(* follows it (line 77, exist_ok=True) are separate filesystem operations.  *)
(* Of two invocations that target the same non-existing destination, one is *)
(* refused with the 'already exists' error, exit 1 and nothing written,     *)
(* exactly when its check comes after the other's mkdir; when both checks   *)
(* come before both mkdirs, both pass and both write into the destination.  *)
C12_RefusedOnlyAfterMkdir ==
    /\ [][\A p \in Procs :
            Checks(p) =>
                /\ proc'[p].pc = "mkroot" <=> ~MadeByOther(p, proc'[p].root)
                /\ proc'[p].pc # "mkroot" => Refused(p)']_vars
    /\ [](\A p \in Procs : Refused(p) => ~proc[p].wrote)

\* C12 as stated: of two invocations on one destination at most one passes
C12_AtMostOnePasses ==
    \A p \in Procs, q \in Procs :
        (p # q /\ proc[p].root = proc[q].root) => ~(Passed(p) /\ Passed(q))

C12_Witness ==
    /\ proc[1].root = proc[2].root
    /\ proc[1].pc = "done" /\ proc[1].exit = 0 /\ proc[1].wrote
    /\ proc[2].pc = "done" /\ proc[2].exit = 0 /\ proc[2].wrote
    /\ proc[1].db /\ ~proc[2].db

====
